---- MODULE Spec2Model ----
(***************************************************************************)
(* Model of Computer_vision/Cifar10/helper.py: the custom training loop    *)
(* ModelWrapper (fit, train_step, valid_step, evaluate) and the epoch-end  *)
(* observer EarlyStopLearningRateCallback (on_train_begin, on_epoch_end,   *)
(* on_train_end) driven by a training host.                                *)
(*                                                                         *)
(* Weights are opaque tokens: every gradient update and every freshly     *)
(* built (cloned) model draws a new token from the allocator `fresh`, so   *)
(* two weight values are equal only if one was copied from the other.      *)
(* A metric value is the pair <<total, count>> of its accumulator and is   *)
(* compared as the fraction total/count.                                   *)
(***************************************************************************)
EXTENDS Integers, Sequences, FiniteSets

\* ------------------------------------------------------------------ bounds
MaxN == 2
MaxNV == 2
MaxBatch == 2
MaxEpochs == 2
MaxLoss == 1
MaxTest == 1
MaxFits == 2
MaxSteps == 4

\* ------------------------------------------------------------- ModelWrapper
VARIABLES
    model,              \* self.model: the weights it holds
    best_weights,       \* self.best_weights
    best_model,         \* self.best_model: the weights it holds, or None
    train_loss,         \* self.train_loss accumulator
    valid_loss,         \* self.valid_loss accumulator
    train_accuracy,     \* self.train_accuracy accumulator
    valid_accuracy,     \* self.valid_accuracy accumulator
    pc,                 \* where the current call of fit stands
    args,               \* the arguments of the current call of fit
    i,                  \* fit: the epoch index
    tb,                 \* fit: training batches consumed in this epoch
    vb,                 \* fit: validation batches consumed in this epoch
    best_acc,           \* fit: local best_acc
    epoch_train_loss,   \* fit: local list
    epoch_train_accuracy,
    epoch_valid_loss,
    epoch_valid_accuracy,
    last_eval,          \* what the last call of evaluate ran on and returned
    fresh,              \* the next unused weights token
    epochs_run,         \* epochs begun over all calls of fit (bounded)
    fits,               \* calls of fit made (bounded)
    steps_run,          \* train_step and valid_step calls over all fits (bounded)
    entry,              \* the wrapper's fields when the current fit was entered
    steps,              \* train_step / valid_step calls made by the current fit
    epoch_weights       \* model weights at the end of each epoch of this fit

wvars == <<model, best_weights, best_model, train_loss, valid_loss,
           train_accuracy, valid_accuracy, pc, args, i, tb, vb, best_acc,
           epoch_train_loss, epoch_train_accuracy, epoch_valid_loss,
           epoch_valid_accuracy, last_eval, fresh, epochs_run, fits, steps_run,
           entry, steps, epoch_weights>>

\* None, for a weights field that holds no weights
None == -1

\* tf.keras.metrics.Mean / SparseCategoricalAccuracy: reset_states()
ResetStates == [total |-> 0, count |-> 0]

\* Mean.__call__(value): one more value in the running mean
MeanUpdate(m, value) == [total |-> m.total + value, count |-> m.count + 1]

\* SparseCategoricalAccuracy.__call__(labels, preds): matches over examples
AccuracyUpdate(m, correct, size) ==
    [total |-> m.total + correct, count |-> m.count + size]

\* metric.result(): total / count, and 0 when nothing was accumulated
Result(m) == IF m.count = 0 THEN <<0, 1>> ELSE <<m.total, m.count>>

\* a > b on two metric values
Greater(a, b) == a[1] * b[2] > b[1] * a[2]

\* Dataset.batch(batch_size) over n examples: the number of batches
NumBatches(n, batch_size) == (n + batch_size - 1) \div batch_size

\* Dataset.batch(batch_size) over n examples: the size of batch k (from 0)
BatchLen(n, batch_size, k) ==
    IF (k + 1) * batch_size <= n THEN batch_size ELSE n - k * batch_size

\* the arguments a call of fit may be given: labels as long as the examples or
\* one longer, validation_data a pair of arrays or an already batched dataset
FitArgs(max_epochs) ==
    { [x_train |-> x, y_train |-> x + dy, epochs |-> e, batch_size |-> b,
       val_x |-> vx, val_y |-> vx + dvy, val_batched |-> FALSE, val_batch |-> 0] :
         x \in 0..MaxN, dy \in 0..1, e \in 0..max_epochs, b \in 0..MaxBatch,
         vx \in 0..MaxNV, dvy \in 0..1 }
    \cup
    { [x_train |-> x, y_train |-> x + dy, epochs |-> e, batch_size |-> b,
       val_x |-> vx, val_y |-> vx, val_batched |-> TRUE, val_batch |-> vb_size] :
         x \in 0..MaxN, dy \in 0..1, e \in 0..max_epochs, b \in 0..MaxBatch,
         vx \in 0..MaxNV, vb_size \in 1..MaxBatch }

NoArgs ==
    [x_train |-> 0, y_train |-> 0, epochs |-> 0, batch_size |-> 0,
     val_x |-> 0, val_y |-> 0, val_batched |-> FALSE, val_batch |-> 0]

\* from_tensor_slices((x, y)).batch(batch_size) raises
DatasetRaises(x, y, batch_size) == x # y \/ batch_size <= 0

\* lines 58-60: building train_ds and validation_data raises
FitRaisesAtStart(a) ==
    \/ DatasetRaises(a.x_train, a.y_train, a.batch_size)
    \/ ~a.val_batched /\ DatasetRaises(a.val_x, a.val_y, a.batch_size)

\* the batch size of validation_data after line 60
ValBatch(a) == IF a.val_batched THEN a.val_batch ELSE a.batch_size

\* evaluate has not been called since the last call of fit
NoEval ==
    [ran |-> FALSE, best |-> FALSE, used |-> "none", weights |-> None,
     accuracy |-> <<0, 1>>]

WrapperInit ==
    /\ model = 0
    /\ best_weights = None
    /\ best_model = None
    /\ train_loss = ResetStates
    /\ valid_loss = ResetStates
    /\ train_accuracy = ResetStates
    /\ valid_accuracy = ResetStates
    /\ pc = "idle"
    /\ args = NoArgs
    /\ i = 0
    /\ tb = 0
    /\ vb = 0
    /\ best_acc = <<0, 1>>
    /\ epoch_train_loss = <<>>
    /\ epoch_train_accuracy = <<>>
    /\ epoch_valid_loss = <<>>
    /\ epoch_valid_accuracy = <<>>
    /\ last_eval = NoEval
    /\ fresh = 1
    /\ epochs_run = 0
    /\ fits = 0
    /\ steps_run = 0
    /\ entry = [model |-> 0, best_weights |-> None, best_model |-> None]
    /\ steps = [train |-> 0, valid |-> 0]
    /\ epoch_weights = <<>>

\* the current call of fit has ended: it returned its mapping or it raised
Ended == pc \in {"returned", "raised_start", "raised_end"}

\* the locals of a call of fit before line 61 has run
NoLocals ==
    /\ i' = 0
    /\ tb' = 0
    /\ vb' = 0
    /\ epoch_train_loss' = <<>>
    /\ epoch_train_accuracy' = <<>>
    /\ epoch_valid_loss' = <<>>
    /\ epoch_valid_accuracy' = <<>>

\* fit, lines 58-66: build the datasets, initialise the locals
Fit(a) ==
    /\ pc = "idle"
    /\ fits < MaxFits
    /\ args' = a
    /\ fits' = fits + 1
    /\ entry' = [model |-> model, best_weights |-> best_weights,
                 best_model |-> best_model]
    /\ steps' = [train |-> 0, valid |-> 0]
    /\ epoch_weights' = <<>>
    /\ last_eval' = NoEval
    /\ NoLocals
    /\ IF FitRaisesAtStart(a)
          THEN pc' = "raised_start" /\ UNCHANGED best_acc
          ELSE pc' = "loop" /\ best_acc' = <<0, 1>>
    /\ UNCHANGED <<model, best_weights, best_model, train_loss, valid_loss,
                   train_accuracy, valid_accuracy, fresh, epochs_run, steps_run>>

\* the call of fit is over: its frame and its locals are gone, the wrapper's
\* fields stay
FitOver ==
    /\ Ended
    /\ pc' = "idle"
    /\ args' = NoArgs
    /\ NoLocals
    /\ best_acc' = <<0, 1>>
    /\ entry' = [model |-> model, best_weights |-> best_weights,
                 best_model |-> best_model]
    /\ steps' = [train |-> 0, valid |-> 0]
    /\ epoch_weights' = <<>>
    /\ UNCHANGED <<model, best_weights, best_model, train_loss, valid_loss,
                   train_accuracy, valid_accuracy, last_eval, fresh, epochs_run,
                   fits, steps_run>>

\* EpochBegin that leaves the validation accuracy accumulator as it was
EpochBegin_KeepsValidAccuracy ==
    /\ pc = "loop"
    /\ i < args.epochs
    /\ train_loss' = ResetStates
    /\ valid_loss' = ResetStates
    /\ train_accuracy' = ResetStates
    /\ valid_accuracy' = valid_accuracy
    /\ tb' = 0
    /\ vb' = 0
    /\ pc' = "batches"
    /\ epochs_run' = epochs_run + 1
    /\ UNCHANGED <<model, best_weights, best_model, args, i, best_acc,
                   epoch_train_loss, epoch_train_accuracy, epoch_valid_loss,
                   epoch_valid_accuracy, last_eval, fresh, fits, steps_run,
                   entry, steps, epoch_weights>>

\* fit, lines 67-72: the next epoch begins, the four accumulators are reset
EpochBegin ==
    /\ pc = "loop"
    /\ i < args.epochs
    /\ train_loss' = ResetStates
    /\ valid_loss' = ResetStates
    /\ train_accuracy' = ResetStates
    /\ valid_accuracy' = ResetStates
    /\ tb' = 0
    /\ vb' = 0
    /\ pc' = "batches"
    /\ epochs_run' = epochs_run + 1
    /\ UNCHANGED <<model, best_weights, best_model, args, i, best_acc,
                   epoch_train_loss, epoch_train_accuracy, epoch_valid_loss,
                   epoch_valid_accuracy, last_eval, fresh, fits, steps_run,
                   entry, steps, epoch_weights>>

\* train_step, lines 111-122: one optimizer update, then the train metrics
train_step(size, loss, correct) ==
    /\ model' = fresh
    /\ fresh' = fresh + 1
    /\ train_loss' = MeanUpdate(train_loss, loss)
    /\ train_accuracy' = AccuracyUpdate(train_accuracy, correct, size)
    /\ UNCHANGED <<valid_loss, valid_accuracy, best_weights, best_model>>

\* valid_step that also applies an optimizer update
valid_step_Trains(size, loss, correct) ==
    /\ model' = fresh
    /\ fresh' = fresh + 1
    /\ valid_loss' = MeanUpdate(valid_loss, loss)
    /\ valid_accuracy' = AccuracyUpdate(valid_accuracy, correct, size)
    /\ UNCHANGED <<train_loss, train_accuracy, best_weights, best_model>>

\* valid_step, lines 125-130: a forward pass, then the validation metrics
valid_step(size, loss, correct) ==
    /\ valid_loss' = MeanUpdate(valid_loss, loss)
    /\ valid_accuracy' = AccuracyUpdate(valid_accuracy, correct, size)
    /\ UNCHANGED <<model, fresh, train_loss, train_accuracy, best_weights,
                   best_model>>

\* fit, lines 74-75: the next training batch
TrainBatch ==
    /\ pc = "batches"
    /\ steps_run < MaxSteps
    /\ tb < NumBatches(args.x_train, args.batch_size)
    /\ \E loss \in 0..MaxLoss :
          \E correct \in 0..BatchLen(args.x_train, args.batch_size, tb) :
             train_step(BatchLen(args.x_train, args.batch_size, tb), loss, correct)
    /\ tb' = tb + 1
    /\ steps_run' = steps_run + 1
    /\ steps' = [steps EXCEPT !.train = @ + 1]
    /\ UNCHANGED <<pc, args, i, vb, best_acc, epoch_train_loss,
                   epoch_train_accuracy, epoch_valid_loss, epoch_valid_accuracy,
                   last_eval, epochs_run, fits, entry, epoch_weights>>

\* fit, lines 79-80: the next validation batch, once the training batches are done
ValidBatch ==
    /\ pc = "batches"
    /\ steps_run < MaxSteps
    /\ tb = NumBatches(args.x_train, args.batch_size)
    /\ vb < NumBatches(args.val_x, ValBatch(args))
    /\ \E loss \in 0..MaxLoss :
          \E correct \in 0..BatchLen(args.val_x, ValBatch(args), vb) :
             valid_step(BatchLen(args.val_x, ValBatch(args), vb), loss, correct)
    /\ vb' = vb + 1
    /\ steps_run' = steps_run + 1
    /\ steps' = [steps EXCEPT !.valid = @ + 1]
    /\ UNCHANGED <<pc, args, i, tb, best_acc, epoch_train_loss,
                   epoch_train_accuracy, epoch_valid_loss, epoch_valid_accuracy,
                   last_eval, epochs_run, fits, entry, epoch_weights>>

\* fit, lines 95-97: keep the weights of the best performing epoch
SaveBest ==
    IF Greater(Result(valid_accuracy), best_acc)
       THEN best_acc' = Result(valid_accuracy) /\ best_weights' = model
       ELSE UNCHANGED <<best_acc, best_weights>>

\* EpochEnd with the validation loss left out of its sequence
EpochEnd_SkipsValLoss ==
    /\ pc = "batches"
    /\ tb = NumBatches(args.x_train, args.batch_size)
    /\ vb = NumBatches(args.val_x, ValBatch(args))
    /\ epoch_train_loss' = Append(epoch_train_loss, Result(train_loss))
    /\ epoch_train_accuracy' = Append(epoch_train_accuracy, Result(train_accuracy))
    /\ epoch_valid_loss' = epoch_valid_loss
    /\ epoch_valid_accuracy' = Append(epoch_valid_accuracy, Result(valid_accuracy))
    /\ SaveBest
    /\ epoch_weights' = Append(epoch_weights, model)
    /\ i' = i + 1
    /\ pc' = "loop"
    /\ UNCHANGED <<model, best_model, train_loss, valid_loss, train_accuracy,
                   valid_accuracy, args, tb, vb, last_eval, fresh, epochs_run,
                   fits, steps_run, entry, steps>>

\* fit, lines 82-97: read the accumulators, append them, keep the best weights
EpochEnd ==
    /\ pc = "batches"
    /\ tb = NumBatches(args.x_train, args.batch_size)
    /\ vb = NumBatches(args.val_x, ValBatch(args))
    /\ epoch_train_loss' = Append(epoch_train_loss, Result(train_loss))
    /\ epoch_train_accuracy' = Append(epoch_train_accuracy, Result(train_accuracy))
    /\ epoch_valid_loss' = Append(epoch_valid_loss, Result(valid_loss))
    /\ epoch_valid_accuracy' = Append(epoch_valid_accuracy, Result(valid_accuracy))
    /\ SaveBest
    /\ epoch_weights' = Append(epoch_weights, model)
    /\ i' = i + 1
    /\ pc' = "loop"
    /\ UNCHANGED <<model, best_model, train_loss, valid_loss, train_accuracy,
                   valid_accuracy, args, tb, vb, last_eval, fresh, epochs_run,
                   fits, steps_run, entry, steps>>

\* fit, lines 99-100: clone the model, load the best weights into the clone;
\* set_weights(None) raises and leaves the fresh clone in self.best_model
BuildBest ==
    IF best_weights = None
       THEN best_model' = fresh /\ pc' = "raised_end"
       ELSE best_model' = best_weights /\ pc' = "returned"

\* fit, lines 99-108: after the last epoch
FitEnd ==
    /\ pc = "loop"
    /\ i >= args.epochs
    /\ BuildBest
    /\ fresh' = fresh + 1
    /\ UNCHANGED <<model, best_weights, train_loss, valid_loss, train_accuracy,
                   valid_accuracy, args, i, tb, vb, best_acc, epoch_train_loss,
                   epoch_train_accuracy, epoch_valid_loss, epoch_valid_accuracy,
                   last_eval, epochs_run, fits, steps_run, entry, steps,
                   epoch_weights>>

\* fit, lines 103-108: the mapping a call that returned has returned
History ==
    [loss |-> epoch_train_loss, accuracy |-> epoch_train_accuracy,
     val_loss |-> epoch_valid_loss, val_accuracy |-> epoch_valid_accuracy]

\* evaluate, lines 134-140: the model evaluate runs on
EvalModel(best) ==
    IF best /\ best_model # None
       THEN [used |-> "best_model", weights |-> best_model]
       ELSE [used |-> "model", weights |-> model]

\* evaluate, lines 132-146: a fresh accuracy over the batches of test_ds
Evaluate(best, size, correct) ==
    /\ pc = "idle"
    /\ last_eval' = [ran |-> TRUE, best |-> best, used |-> EvalModel(best).used,
                     weights |-> EvalModel(best).weights,
                     accuracy |-> Result(AccuracyUpdate(ResetStates, correct, size))]
    /\ UNCHANGED <<model, best_weights, best_model, train_loss, valid_loss,
                   train_accuracy, valid_accuracy, pc, args, i, tb, vb, best_acc,
                   epoch_train_loss, epoch_train_accuracy, epoch_valid_loss,
                   epoch_valid_accuracy, fresh, epochs_run, fits, steps_run,
                   entry, steps, epoch_weights>>

\* ------------------------------------------- EarlyStopLearningRateCallback
MaxLrPatience == 3
MaxStopPatience == 5
MaxAcc == 5
MaxCalls == 6
MaxRuns == 2
BatchesPerEpoch == 2

VARIABLES
    lr_patience,        \* self.lr_patience
    stop_patience,      \* self.stop_patience
    cb_best_weights,    \* self.best_weights of the callback
    cb_best_acc,        \* self.best_acc, in tenths
    lr_wait,            \* self.lr_wait
    stop_wait,          \* self.stop_wait
    start,              \* self.start: the run at whose beginning it was taken
    k_weights,          \* self.model: the weights of the model being trained
    learning_rate,      \* self.model.optimizer.learning_rate, in units
    stop_training,      \* self.model.stop_training
    h_pc,               \* where the training host stands
    h_epochs,           \* the host's number of epochs for this run
    h_epoch,            \* the host's epoch index
    h_batch,            \* batches the host has trained in this epoch
    k_fresh,            \* the next unused weights token of the host's model
    runs,               \* training runs begun with this callback (bounded)
    calls,              \* on_epoch_end calls made over all runs (bounded)
    seen_best,          \* the highest val_accuracy on_epoch_end was given (0 at first)
    streak,             \* consecutive on_epoch_end calls not above seen_best
    seen_weights,       \* the model's weights when each epoch of this run ended
    base_rate,          \* the learning rate when streak was last 0
    scen                \* leading val_accuracy values that follow Scenario, or Off

cvars == <<lr_patience, stop_patience, cb_best_weights, cb_best_acc, lr_wait,
           stop_wait, start, k_weights, learning_rate, stop_training, h_pc,
           h_epochs, h_epoch, h_batch, k_fresh, runs, calls, seen_best, streak,
           seen_weights, base_rate, scen>>

vars == <<wvars, cvars>>

\* the optimizer's initial learning rate, in units small enough to halve exactly
InitialRate == 2 ^ (MaxCalls + 1)

\* line 197: new_lr = current_lr * 0.5
Half(current_lr) == current_lr \div 2

\* spec section 8: the val_accuracy values of the scenario, in tenths
Scenario == <<5, 4, 4, 4, 3, 2>>

\* the val_accuracy values given so far do not follow the scenario
Off == Len(Scenario) + 1

\* line 167: the default patiences
DefaultLrPatience == 3
DefaultStopPatience == 5

\* __init__, lines 167-174, and the model the callback is attached to
CallbackInit(lp, sp) ==
    /\ lr_patience = lp
    /\ stop_patience = sp
    /\ cb_best_weights = None
    /\ cb_best_acc = 0
    /\ lr_wait = 0
    /\ stop_wait = 0
    /\ start = None
    /\ k_weights = 0
    /\ learning_rate = InitialRate
    /\ stop_training = FALSE
    /\ h_pc = "idle"
    /\ h_epochs = 0
    /\ h_epoch = 0
    /\ h_batch = 0
    /\ k_fresh = 1
    /\ runs = 0
    /\ calls = 0
    /\ seen_best = 0
    /\ streak = 0
    /\ seen_weights = <<>>
    /\ base_rate = InitialRate
    /\ scen = 0

\* on_train_begin, lines 176-177
on_train_begin ==
    /\ start' = runs + 1
    /\ UNCHANGED <<cb_best_weights, cb_best_acc, lr_wait, stop_wait, k_weights,
                   learning_rate>>

\* the host starts a run of `epochs` epochs: it clears the halt signal and
\* calls on_train_begin
TrainBegin(epochs) ==
    /\ h_pc = "idle"
    /\ runs < MaxRuns
    /\ runs' = runs + 1
    /\ stop_training' = FALSE
    /\ on_train_begin
    /\ h_epochs' = epochs
    /\ h_epoch' = 0
    /\ h_batch' = 0
    /\ h_pc' = IF epochs > 0 THEN "epoch" ELSE "train_end"
    /\ seen_weights' = <<>>
    /\ scen' = IF runs = 0 THEN 0 ELSE Off
    /\ UNCHANGED <<lr_patience, stop_patience, k_fresh, calls, seen_best, streak,
                   base_rate>>

\* the host trains one batch of the current epoch: one optimizer update
HostBatch ==
    /\ h_pc = "epoch"
    /\ h_batch < BatchesPerEpoch
    /\ k_weights' = k_fresh
    /\ k_fresh' = k_fresh + 1
    /\ h_batch' = h_batch + 1
    /\ UNCHANGED <<lr_patience, stop_patience, cb_best_weights, cb_best_acc,
                   lr_wait, stop_wait, start, learning_rate, stop_training, h_pc,
                   h_epochs, h_epoch, runs, calls, seen_best, streak,
                   seen_weights, base_rate, scen>>

\* DecayRate that fires on lr_wait >= lr_patience
DecayRate_AtLeast(wait) ==
    IF wait >= lr_patience
       THEN learning_rate' = Half(learning_rate) /\ lr_wait' = 0
       ELSE learning_rate' = learning_rate /\ lr_wait' = wait

\* DecayRate that halves the rate and leaves lr_wait at lr_patience
DecayRate_KeepsWait(wait) ==
    IF wait = lr_patience
       THEN learning_rate' = Half(learning_rate) /\ lr_wait' = wait
       ELSE learning_rate' = learning_rate /\ lr_wait' = wait

\* lines 195-200: the learning rate is halved when lr_wait reaches lr_patience
DecayRate(wait) ==
    IF wait = lr_patience
       THEN learning_rate' = Half(learning_rate) /\ lr_wait' = 0
       ELSE learning_rate' = learning_rate /\ lr_wait' = wait

\* StopTraining that fires on stop_wait >= stop_patience
StopTraining_AtLeast(wait) ==
    IF wait >= stop_patience
       THEN /\ stop_training' = TRUE
            /\ k_weights' = IF cb_best_weights = None THEN k_weights
                                                       ELSE cb_best_weights
       ELSE UNCHANGED <<stop_training, k_weights>>

\* StopTraining that sets the halt signal and restores nothing
StopTraining_NoRestore(wait) ==
    IF wait = stop_patience
       THEN stop_training' = TRUE /\ k_weights' = k_weights
       ELSE UNCHANGED <<stop_training, k_weights>>

\* lines 201-203: the halt signal, then set_weights(self.best_weights), which
\* raises when best_weights is None
StopTraining(wait) ==
    IF wait = stop_patience
       THEN /\ stop_training' = TRUE
            /\ k_weights' = IF cb_best_weights = None THEN k_weights
                                                       ELSE cb_best_weights
       ELSE UNCHANGED <<stop_training, k_weights>>

\* on_epoch_end raises: lines 201-203 reached with no snapshot
EpochEndRaises(current_acc) ==
    /\ ~(current_acc > cb_best_acc)
    /\ stop_wait + 1 = stop_patience
    /\ cb_best_weights = None

\* on_epoch_end, lines 186-203
on_epoch_end(current_acc) ==
    IF current_acc > cb_best_acc
       THEN /\ cb_best_weights' = k_weights
            /\ cb_best_acc' = current_acc
            /\ lr_wait' = 0
            /\ stop_wait' = 0
            /\ UNCHANGED <<learning_rate, stop_training, k_weights>>
       ELSE /\ stop_wait' = stop_wait + 1
            /\ DecayRate(lr_wait + 1)
            /\ StopTraining(stop_wait + 1)
            /\ UNCHANGED <<cb_best_weights, cb_best_acc>>

\* the host ends an epoch: it calls on_epoch_end with the epoch's val_accuracy,
\* then leaves the loop when the halt signal is set or the epochs are exhausted
EpochEndCall(current_acc) ==
    /\ h_pc = "epoch"
    /\ h_batch = BatchesPerEpoch
    /\ on_epoch_end(current_acc)
    /\ h_pc' = IF EpochEndRaises(current_acc) THEN "crashed"
               ELSE IF stop_training' \/ h_epoch + 1 >= h_epochs THEN "train_end"
               ELSE "epoch"
    /\ h_epoch' = h_epoch + 1
    /\ h_batch' = 0
    /\ calls' = calls + 1
    /\ seen_best' = IF current_acc > seen_best THEN current_acc ELSE seen_best
    /\ streak' = IF current_acc > seen_best THEN 0 ELSE streak + 1
    /\ seen_weights' = Append(seen_weights, k_weights)
    /\ base_rate' = IF current_acc > seen_best THEN learning_rate ELSE base_rate
    /\ scen' = IF scen # Off /\ scen < Len(Scenario) /\ current_acc = Scenario[scen + 1]
                  THEN scen + 1 ELSE Off
    /\ UNCHANGED <<lr_patience, stop_patience, start, h_epochs, k_fresh, runs>>

\* on_train_end, lines 205-211: report the time, set_weights(self.best_weights)
on_train_end ==
    /\ k_weights' = IF cb_best_weights = None THEN k_weights ELSE cb_best_weights
    /\ UNCHANGED <<cb_best_weights, cb_best_acc, lr_wait, stop_wait, start,
                   learning_rate, stop_training>>

\* the host ends the run: it calls on_train_end
TrainEnd ==
    /\ h_pc = "train_end"
    /\ on_train_end
    /\ h_pc' = IF cb_best_weights = None THEN "crashed" ELSE "idle"
    /\ UNCHANGED <<lr_patience, stop_patience, h_epochs, h_epoch, h_batch,
                   k_fresh, runs, calls, seen_best, streak, seen_weights,
                   base_rate, scen>>

\* ------------------------------------------------------- claims: ModelWrapper

\* the four running sequences of the current call of fit
Sequences4 ==
    <<epoch_train_loss, epoch_train_accuracy, epoch_valid_loss, epoch_valid_accuracy>>

\* C1: after the i-th epoch of a call of fit completes each of the four running
\* sequences has length i, and the mapping a call with E >= 1 epochs returns
\* holds four sequences of length exactly E.
C1_HistoryLengths ==
    /\ \A k \in 1..4 : Len(Sequences4[k]) = i
    /\ (pc = "returned" /\ args.epochs >= 1) =>
          /\ Len(History.loss) = args.epochs
          /\ Len(History.accuracy) = args.epochs
          /\ Len(History.val_loss) = args.epochs
          /\ Len(History.val_accuracy) = args.epochs

\* C1 witness: a call of two epochs has returned its mapping
C1_Witness ==
    /\ pc = "returned"
    /\ args.epochs = 2
    /\ Len(History.val_accuracy) = 2
    /\ steps.train >= 2

\* the earliest epoch among those with the maximum validation accuracy
FirstBestEpoch(accs) ==
    CHOOSE k \in 1..Len(accs) :
        /\ \A j \in 1..Len(accs) : ~Greater(accs[j], accs[k])
        /\ \A j \in 1..(k - 1) : Greater(accs[k], accs[j])

\* C2: at the end of every epoch of fit the recorded best-weight snapshot is the
\* model's weights as they were at the end of the earliest epoch with the
\* maximum validation accuracy seen so far in the run.
C2_SnapshotIsBestEpoch ==
    Len(epoch_weights) >= 1 =>
        best_weights = epoch_weights[FirstBestEpoch(epoch_valid_accuracy)]

\* no epoch of the current call of fit had a validation accuracy above the
\* initial best of 0, so the call took no snapshot
NoSnapshotTaken ==
    \A k \in 1..Len(epoch_valid_accuracy) :
        ~Greater(epoch_valid_accuracy[k], <<0, 1>>)

\* C7: a call of fit that reaches best-model construction without having taken
\* a snapshot fails instead of returning a mapping, and it leaves no best model
\* whose weights were never loaded from a snapshot.
C7_NoSnapshotFails ==
    (pc \in {"returned", "raised_end"} /\ NoSnapshotTaken) =>
        /\ pc = "raised_end"
        /\ best_model # None => (best_weights # None /\ best_model = best_weights)

\* C8: evaluate(best=True) runs on the best model, holding the best snapshot's
\* weights, when one exists and on the current model otherwise; it never runs
\* on a clone whose weights were not loaded from a snapshot.
C8_EvaluateBest ==
    (last_eval.ran /\ last_eval.best) =>
        IF best_model = None
           THEN last_eval.used = "model" /\ last_eval.weights = model
           ELSE /\ last_eval.used = "best_model"
                /\ best_weights # None
                /\ last_eval.weights = best_weights

\* the arguments fit is to reject at the start of the run
Rejected(a) ==
    \/ a.x_train # a.y_train
    \/ a.val_x # a.val_y
    \/ a.x_train = 0
    \/ a.val_x = 0
    \/ a.epochs <= 0
    \/ a.batch_size <= 0

\* C9: given mismatched lengths, an empty dataset or a non-positive epochs or
\* batch_size, fit runs no train_step and no valid_step, appends no metric,
\* leaves the model's parameters as they were, and does not return.
C9_FailFast ==
    (pc # "idle" /\ Rejected(args)) =>
        /\ steps.train = 0
        /\ steps.valid = 0
        /\ \A k \in 1..4 : Sequences4[k] = <<>>
        /\ model = entry.model
        /\ pc # "returned"

\* C11: once the first epoch of a call of fit has completed, whatever its
\* validation accuracy, best_weights holds a snapshot taken in this call.
C11_FirstEpochSnapshots ==
    (pc # "idle" /\ i >= 1) => \E k \in 1..i : best_weights = epoch_weights[k]

\* the examples of a data set of n that its first k batches cover
Covered(n, batch_size, k) == IF k * batch_size <= n THEN k * batch_size ELSE n

\* C12: in every epoch the N training examples are consumed as ceil(N/batch_size)
\* consecutive batches, each of batch_size examples except possibly the last,
\* covering every example once; with batch_size > N there is exactly one batch
\* and it covers all N examples.
C12_Batching ==
    pc = "batches" =>
        LET N == args.x_train
            bs == args.batch_size
            nb == NumBatches(N, bs)
        IN  /\ tb <= nb
            /\ nb * bs >= N /\ (nb - 1) * bs < N
            /\ \A k \in 0..(nb - 1) :
                  /\ k < nb - 1 => BatchLen(N, bs, k) = bs
                  /\ 1 <= BatchLen(N, bs, k) /\ BatchLen(N, bs, k) <= bs
            /\ train_accuracy.count = Covered(N, bs, tb)
            /\ tb = nb => train_accuracy.count = N
            /\ bs > N => (nb = 1 /\ BatchLen(N, bs, 0) = N)

\* C13: each accumulator is neutral when its first batch of an epoch arrives and
\* holds exactly the batches of the current epoch, and the four values recorded
\* for an epoch are read once all its training and validation batches are in.
C13_AccumulatorsPerEpoch ==
    /\ pc = "batches" =>
          /\ tb = 0 => (train_loss = ResetStates /\ train_accuracy = ResetStates)
          /\ vb = 0 => (valid_loss = ResetStates /\ valid_accuracy = ResetStates)
          /\ train_loss.count = tb
          /\ valid_loss.count = vb
          /\ train_accuracy.count = Covered(args.x_train, args.batch_size, tb)
          /\ valid_accuracy.count = Covered(args.val_x, ValBatch(args), vb)
          /\ train_loss.total <= MaxLoss * tb
          /\ valid_loss.total <= MaxLoss * vb
          /\ train_accuracy.total <= train_accuracy.count
          /\ valid_accuracy.total <= valid_accuracy.count
    /\ (pc = "loop" /\ i >= 1) =>
          /\ train_loss.count = NumBatches(args.x_train, args.batch_size)
          /\ valid_loss.count = NumBatches(args.val_x, ValBatch(args))
          /\ train_accuracy.count = args.x_train
          /\ valid_accuracy.count = args.val_x
          /\ epoch_train_loss[i] = Result(train_loss)
          /\ epoch_train_accuracy[i] = Result(train_accuracy)
          /\ epoch_valid_loss[i] = Result(valid_loss)
          /\ epoch_valid_accuracy[i] = Result(valid_accuracy)

\* C13 witness: the second epoch of a call has ended with a validation accuracy
\* of 0 over a non-empty validation set, after a first epoch above 0, both
\* epochs having trained
C13_Witness ==
    /\ pc = "loop"
    /\ i = 2
    /\ steps.train >= 2
    /\ Greater(epoch_valid_accuracy[1], <<0, 1>>)
    /\ epoch_valid_accuracy[2] = <<0, args.val_x>>
    /\ args.val_x >= 1

\* the step is a call of valid_step
IsValidStep == steps.valid' = steps.valid + 1

\* the step is a call of evaluate
IsEvaluateCall == pc = "idle" /\ pc' = "idle"

\* C14: a valid_step and a call of evaluate leave the model's parameters, the
\* train accumulators and the best snapshot as they were (evaluate the
\* validation accumulators too), so the model at the end of an epoch holds the
\* weights its last train_step left.
C14_ValidationFrame ==
    /\ [][(IsValidStep \/ IsEvaluateCall) =>
             /\ UNCHANGED <<model, fresh, train_loss, train_accuracy,
                            best_weights, best_model>>
             /\ IsEvaluateCall => UNCHANGED <<valid_loss, valid_accuracy>>]_vars
    /\ []((pc = "loop" /\ i >= 1 /\ args.x_train >= 1) =>
             (model = fresh - 1 /\ epoch_weights[i] = model))

\* C14 witness: an epoch with a train_step and a valid_step has ended
C14_Witness ==
    /\ pc = "loop"
    /\ i >= 1
    /\ steps.train >= 1
    /\ steps.valid >= 1
    /\ epoch_weights[i] = model

\* C19: the best model a call of fit has built holds the weights snapshotted in
\* that call at the earliest epoch of its maximum validation accuracy.
C19_BestModelFromThisCall ==
    pc = "returned" =>
        /\ Len(epoch_weights) >= 1
        /\ ~NoSnapshotTaken
        /\ best_model = epoch_weights[FirstBestEpoch(epoch_valid_accuracy)]

\* ------------------------------ claims: EarlyStopLearningRateCallback

\* the step is a call of on_epoch_end
IsEpochEndCall == calls' = calls + 1

\* the step is a call of on_train_end
IsTrainEndCall == h_pc = "train_end" /\ h_pc' # "train_end"

\* C3: the on_epoch_end call that completes stop_patience consecutive epochs
\* without improvement sets the halt signal and leaves the model's parameters
\* equal to the last recorded best snapshot.
C3_StopRestoresBest ==
    [][(IsEpochEndCall /\ streak' >= 1 /\ streak' = stop_patience) =>
          /\ stop_training'
          /\ cb_best_weights' # None
          /\ k_weights' = cb_best_weights']_vars

\* C4: the on_epoch_end call that completes lr_patience consecutive epochs
\* without improvement leaves the learning rate at 0.5 times its value before
\* the call, and lr_wait at 0.
C4_DecayHalves ==
    [][(IsEpochEndCall /\ streak' >= 1 /\ streak' = lr_patience) =>
          /\ 2 * learning_rate' = learning_rate
          /\ lr_wait' = 0]_vars

\* C4 witness: the first streak of lr_patience epochs without improvement has
\* just been completed and the rate is half the initial one
C4_Witness ==
    /\ lr_patience >= 2
    /\ streak = lr_patience
    /\ seen_best > 0
    /\ lr_wait = 0
    /\ 2 * learning_rate = InitialRate

\* C5: in every reachable state 0 <= lr_wait <= lr_patience and
\* 0 <= stop_wait <= stop_patience, for all non-negative patiences.
C5_CountersInRange ==
    /\ 0 <= lr_wait /\ lr_wait <= lr_patience
    /\ 0 <= stop_wait /\ stop_wait <= stop_patience

\* C6: with lr_patience = 3, stop_patience = 5 and the validation accuracies
\* 0.5, 0.4, 0.4, 0.4, 0.3, 0.2 the learning rate is halved once, at epoch 4;
\* the halt signal is first set at epoch 6; and at the halt the model holds the
\* weights snapshotted at epoch 1.
C6_Scenario ==
    (lr_patience = 3 /\ stop_patience = 5 /\ scen # Off) =>
        /\ learning_rate = IF scen >= 4 THEN InitialRate \div 2 ELSE InitialRate
        /\ 2 * (InitialRate \div 2) = InitialRate
        /\ stop_training = (scen = 6)
        /\ scen >= 1 => cb_best_weights = seen_weights[1]
        /\ scen = 6 => k_weights = seen_weights[1]
        /\ scen >= 1 => h_pc # "crashed"

\* C6 witness: the sixth epoch of the scenario has ended and halted the run
C6_Witness ==
    /\ lr_patience = 3
    /\ stop_patience = 5
    /\ scen = 6
    /\ stop_training
    /\ h_pc = "train_end"
    /\ k_weights # seen_weights[6]

\* C10: on_train_end leaves the model's parameters equal to the best snapshot,
\* and unchanged if on_epoch_end had already restored it.
C10_TrainEndRestoresBest ==
    [][IsTrainEndCall =>
          /\ cb_best_weights' # None
          /\ k_weights' = cb_best_weights'
          /\ (stop_training /\ k_weights = cb_best_weights) => k_weights' = k_weights]_vars

\* C15: the halt signal is set only by the on_epoch_end call, after the last
\* batch of an epoch, that brings stop_wait to stop_patience; and once it is set
\* the run starts no further epoch and applies no further batch update: its
\* only next event is on_train_end.
C15_HaltAtEpochBoundary ==
    [][/\ (stop_training' /\ ~stop_training) =>
             /\ IsEpochEndCall
             /\ h_batch = BatchesPerEpoch
             /\ stop_wait' = stop_patience
       /\ (stop_training /\ h_pc # "idle") =>
             /\ IsTrainEndCall
             /\ k_fresh' = k_fresh
             /\ h_epoch' = h_epoch
             /\ calls' = calls]_vars

\* C15 witness: the halt signal has ended a run before its epochs were exhausted
C15_Witness ==
    /\ stop_training
    /\ h_pc = "train_end"
    /\ cb_best_weights # None
    /\ stop_wait = stop_patience
    /\ h_epoch < h_epochs

\* C16: the on_epoch_end call of a non-improving epoch that brings lr_wait to
\* lr_patience and stop_wait to stop_patience at once halves the learning rate,
\* resets lr_wait to 0, sets the halt signal and restores the best snapshot.
C16_DecayAndStopTogether ==
    [][(/\ IsEpochEndCall
        /\ cb_best_acc' = cb_best_acc
        /\ cb_best_weights' = cb_best_weights
        /\ lr_wait + 1 = lr_patience
        /\ stop_wait + 1 = stop_patience) =>
          /\ 2 * learning_rate' = learning_rate
          /\ lr_wait' = 0
          /\ stop_training'
          /\ cb_best_weights' # None
          /\ k_weights' = cb_best_weights']_vars

\* the step is the start of a training run, with its call of on_train_begin
IsTrainBeginCall == runs' = runs + 1

\* C17: after on_train_begin, at the start of every training run, the best
\* accuracy is 0, the best-weight snapshot is empty and both counters are 0.
C17_StatePerRun ==
    [][IsTrainBeginCall =>
          /\ cb_best_acc' = 0
          /\ cb_best_weights' = None
          /\ lr_wait' = 0
          /\ stop_wait' = 0]_vars

\* C18: whenever on_epoch_end has fired the stop condition or on_train_end is
\* to run, best_weights is a recorded snapshot, not None.
C18_NeverRestoresNone ==
    (stop_training \/ h_pc = "train_end") => cb_best_weights # None

\* C20: the learning rate changes only in an on_epoch_end call of a
\* non-improving epoch that brings lr_wait to lr_patience, and then to half its
\* value; so after k consecutive non-improving epochs (k <= stop_patience,
\* lr_patience >= 1) it has been halved exactly floor(k / lr_patience) times.
C20_RateOnlyHalves ==
    /\ [][learning_rate' # learning_rate =>
             /\ IsEpochEndCall
             /\ cb_best_acc' = cb_best_acc
             /\ lr_wait + 1 = lr_patience
             /\ 2 * learning_rate' = learning_rate]_vars
    /\ []((lr_patience >= 1 /\ streak <= stop_patience) =>
             learning_rate * 2 ^ (streak \div lr_patience) = base_rate)

\* C20 witness: a streak of twice lr_patience non-improving epochs after an
\* improvement, with the rate at a quarter of what it was
C20_Witness ==
    /\ lr_patience >= 1
    /\ seen_best > 0
    /\ streak = 2 * lr_patience
    /\ streak <= stop_patience
    /\ 4 * learning_rate = base_rate

\* ----------------------------------------------------------- specifications
\* the wrapper, with a callback built with its default arguments and never run
Init == WrapperInit /\ CallbackInit(DefaultLrPatience, DefaultStopPatience)

Next ==
    \/ /\ pc = "idle"
       /\ \E a \in FitArgs(MaxEpochs - epochs_run) : Fit(a)
       /\ UNCHANGED cvars
    \/ EpochBegin /\ UNCHANGED cvars
    \/ TrainBatch /\ UNCHANGED cvars
    \/ ValidBatch /\ UNCHANGED cvars
    \/ EpochEnd /\ UNCHANGED cvars
    \/ FitEnd /\ UNCHANGED cvars
    \/ FitOver /\ UNCHANGED cvars
    \/ /\ pc = "idle"
       /\ \E best \in BOOLEAN : \E size \in 0..MaxTest : \E correct \in 0..size :
             Evaluate(best, size, correct)
       /\ UNCHANGED cvars

Spec == Init /\ [][Next]_vars

\* the callback under a training host, for every pair of patiences
CallbackSpecInit ==
    /\ WrapperInit
    /\ \E lp \in 0..MaxLrPatience : \E sp \in 0..MaxStopPatience : CallbackInit(lp, sp)

CallbackSpecNext ==
    \/ (\E epochs \in 0..(MaxCalls - calls) : TrainBegin(epochs)) /\ UNCHANGED wvars
    \/ HostBatch /\ UNCHANGED wvars
    \/ (\E current_acc \in 0..MaxAcc : EpochEndCall(current_acc)) /\ UNCHANGED wvars
    \/ TrainEnd /\ UNCHANGED wvars

CallbackSpec == CallbackSpecInit /\ [][CallbackSpecNext]_vars

====
